---- MODULE Spec2Model ----
(***************************************************************************)
(* Model of the image duplicate service: the in-memory vector store        *)
(* (app/db.py, class VectorDB) and the two HTTP handlers that use it       *)
(* (app/api.py, add_images and find_duplicates).                           *)
(*                                                                         *)
(* Corpus indices are the code's 0-based integers; a TLA+ sequence holds   *)
(* the element of index i at position i+1.  Vector components are small    *)
(* integers: they are exactly representable as float32, so the numpy       *)
(* conversion to float32 does not change them and squared L2 distances     *)
(* are exact.                                                              *)
(***************************************************************************)
EXTENDS Integers, Sequences, FiniteSets, TLC

\* ---------------------------------------------------------------- bounds
Dim == 1
MaxCorpus == 3
MaxBatch == 2
MaxImages == 3
MaxK == 2
NumUuids == 2

\* The distance faiss reports for a missing neighbour (label -1): the
\* largest finite float32.  Every real distance of the model is below it.
FLT_MAX == 1000

DirectTokens == {"a"}
Thresholds == {-1, 0, 1, FLT_MAX}

\* Python's None, returned by get_image_name for an index out of range.
None == "None"

\* ------------------------------------------------------------ input sets
\* Vectors of the store's dimension: the zero vector and the unit vectors.
\* Two of them are at squared distance 0, 1 or 2.
Unit(d) == [i \in 1..Dim |-> IF i = d THEN 1 ELSE 0]
GoodVectors == {Unit(d) : d \in 0..Dim}
BadVectors == {[i \in 1..(Dim - 1) |-> 0], [i \in 1..(Dim + 1) |-> 0]}
AnyVectors == GoodVectors \cup BadVectors

Min(a, b) == IF a <= b THEN a ELSE b

\* One image of a POST /images body: where it comes from, what goes wrong
\* with it ("none" when nothing does) and the vector the embedding model
\* returns for it.  The embedding always has the store's dimension.
NoVector == <<>>
FileItems ==
    [src : {"file"}, fault : {"none"}, vector : GoodVectors]
        \cup [src : {"file"}, fault : {"type", "size", "embed"},
              vector : {NoVector}]
Base64Items ==
    [src : {"base64"}, fault : {"none"}, vector : GoodVectors]
        \cup [src : {"base64"}, fault : {"decode", "size"},
              vector : {NoVector}]
UrlItems ==
    [src : {"url"}, fault : {"none"}, vector : GoodVectors]
        \cup [src : {"url"}, fault : {"status", "network"},
              vector : {NoVector}]

\* The values str(uuid.uuid4()) can take.  The generator is random: a call
\* returns any identifier that is not registered at that moment.
Uuids == {"uuid-" \o ToString(n) : n \in 1..NumUuids}

AllTokens == DirectTokens \cup Uuids

\* ----------------------------------------------------------------- state
VARIABLES index, vectors, request_map, image_names, call, result, pending

vars == <<index, vectors, request_map, image_names, call, result, pending>>
store == <<index, vectors, request_map, image_names>>

\* ------------------------------------------------------- pure operations
\* f"image_{i}"
ImageName(i) == "image_" \o ToString(i)

\* np.array(vectors, dtype='float32') on one vector.
Float32(v) == v

RECURSIVE SumSq(_, _, _)
SumSq(x, y, n) ==
    IF n = 0 THEN 0
    ELSE (x[n] - y[n]) * (x[n] - y[n]) + SumSq(x, y, n - 1)

\* The metric of faiss.IndexFlatL2: squared Euclidean distance.
L2Sqr(x, y) == SumSq(x, y, Len(x))

\* np.array succeeds on a rectangular batch only, and the batch is then
\* accepted when it is two-dimensional with rows of length dim.
IsRectangular(vecs) == \A i, j \in 1..Len(vecs) : Len(vecs[i]) = Len(vecs[j])

\* Variant: only the first row of the batch is measured.
AddVectorsErrorFirstRow(vecs) ==
    IF Len(vecs) = 0 THEN "IndexError"
    ELSE IF Len(vecs[1]) # Dim THEN "ValueError"
    ELSE "ok"

\* The exception add_vectors raises, or "ok".  A ragged batch makes
\* np.array raise ValueError; an empty batch is one-dimensional and the
\* error message's shape[1] raises IndexError.
AddVectorsError(vecs) ==
    IF ~IsRectangular(vecs) THEN "ValueError"
    ELSE IF Len(vecs) = 0 THEN "IndexError"
    ELSE IF Len(vecs[1]) # Dim THEN "ValueError"
    ELSE "ok"

\* The label in S with the smallest distance; among equally distant ones
\* the lowest.
Closest(dist, S) ==
    CHOOSE j \in S : \A m \in S :
        dist[j] < dist[m] \/ (dist[j] = dist[m] /\ j <= m)

RECURSIVE SearchFrom(_, _, _)
SearchFrom(dist, S, k) ==
    IF k = 0 THEN <<>>
    ELSE IF S = {} THEN
        <<[label |-> -1, dist |-> FLT_MAX]>> \o SearchFrom(dist, S, k - 1)
    ELSE LET j == Closest(dist, S)
         IN  <<[label |-> j, dist |-> dist[j]]>>
                 \o SearchFrom(dist, S \ {j}, k - 1)

\* index.search(query, k) for one query row: the k nearest stored vectors
\* by ascending distance, padded with label -1 at distance FLT_MAX when
\* fewer than k vectors are stored.
IndexSearch(idx, q, k) ==
    LET dist == [j \in 0..(Len(idx) - 1) |-> L2Sqr(idx[j + 1], q)]
    IN  SearchFrom(dist, 0..(Len(idx) - 1), k)

\* vectors[start:end]
Slice(s, start, end) == [i \in 1..(end - start) |-> s[start + i]]

\* f"vector_{i}" and int(vector_key.split('_')[1])
VectorKey(i) == <<"vector", i>>
VectorNumber(key) == key[2]

\* VectorDB.search_duplicates for a registered request_id.
search_duplicates(idx, vecs, rmap, request_id, k) ==
    LET start_index == rmap[request_id][1]
        end_index == rmap[request_id][2]
        query_vectors == Slice(vecs, start_index, end_index)
        hits == [i \in 0..(Len(query_vectors) - 1) |->
                    IndexSearch(idx, Float32(query_vectors[i + 1]), k)]
    IN  [key \in {VectorKey(i) : i \in 0..(Len(query_vectors) - 1)} |->
            [indices |-> [n \in 1..k |-> hits[VectorNumber(key)][n].label],
             distances |-> [n \in 1..k |-> hits[VectorNumber(key)][n].dist]]]

\* VectorDB.get_image_name
get_image_name(names, idx) ==
    IF 0 <= idx /\ idx < Len(names) THEN names[idx + 1] ELSE None

\* Variant: the position in the request is taken for the corpus index.
CurrentIndexInRequest(start_index, vector_key) == VectorNumber(vector_key)

\* The index find_duplicates attributes to the query row vector_key.
CurrentIndex(start_index, vector_key) == start_index + VectorNumber(vector_key)

\* Variant: a hit on the query row's own index is kept.
ContributionKeepsSelf(results, current_index, threshold) ==
    {results.indices[i] : i \in
        {n \in 1..Len(results.indices) :
            results.distances[n] <= threshold}}

\* Variant: the distance is compared with the magnitude of the threshold.
ContributionMagnitude(results, current_index, threshold) ==
    {results.indices[i] : i \in
        {n \in 1..Len(results.indices) :
            /\ results.indices[n] # current_index
            /\ \/ results.distances[n] <= threshold
               \/ results.distances[n] <= 0 - threshold}}

\* Variant: the threshold comparison is strict.
ContributionStrict(results, current_index, threshold) ==
    {results.indices[i] : i \in
        {n \in 1..Len(results.indices) :
            /\ results.indices[n] # current_index
            /\ results.distances[n] < threshold}}

\* The inner loop of find_duplicates for one query row.
Contribution(results, current_index, threshold) ==
    {results.indices[i] : i \in
        {n \in 1..Len(results.indices) :
            /\ results.indices[n] # current_index
            /\ results.distances[n] <= threshold}}

AllDuplicates(duplicates_indices, start_index, threshold) ==
    UNION {Contribution(duplicates_indices[key],
                        CurrentIndex(start_index, key), threshold) :
           key \in DOMAIN duplicates_indices}

\* The HTTP status of the exception one image makes add_images raise.
\* Inside the base64 loop every exception, the 400 of process_image
\* included, is caught and raised again as a 500.
FaultStatus(item) ==
    IF item.src = "base64" THEN 500
    ELSE IF item.fault \in {"type", "size", "status", "empty"} THEN 400
    ELSE 500

\* Variant: an image that fails is skipped and the loop goes on.
RECURSIVE ProcessImagesSkipping(_, _)
ProcessImagesSkipping(items, acc) ==
    IF items = <<>> THEN [status |-> 200, vectors |-> acc]
    ELSE IF Head(items).fault # "none"
         THEN ProcessImagesSkipping(Tail(items), acc)
         ELSE ProcessImagesSkipping(Tail(items),
                                    Append(acc, Head(items).vector))

\* The three loops of add_images over the images in order: the local list
\* of vectors when the loops end, and the status they end with.
RECURSIVE ProcessImages(_, _)
ProcessImages(items, acc) ==
    IF items = <<>> THEN [status |-> 200, vectors |-> acc]
    ELSE IF Head(items).fault # "none"
         THEN [status |-> FaultStatus(Head(items)), vectors |-> acc]
         ELSE ProcessImages(Tail(items), Append(acc, Head(items).vector))

\* ------------------------------------------------------------------ Init
Init ==
    /\ index = <<>>
    /\ vectors = <<>>
    /\ request_map = <<>>
    /\ image_names = <<>>
    /\ call = [op |-> "init"]
    /\ result = [status |-> "ok"]
    /\ pending = <<>>

\* --------------------------------------------------------------- actions
\* Variant: the names of a batch are numbered from 1 in every batch.
CommitNamesFromOne(request_id, vecs) ==
    LET start_index == Len(vectors)
        end_index == start_index + Len(vecs)
        new_image_names == [n \in 1..Len(vecs) |-> ImageName(n)]
    IN  /\ index' = index \o [n \in 1..Len(vecs) |-> Float32(vecs[n])]
        /\ image_names' = image_names \o new_image_names
        /\ request_map' =
               [t \in DOMAIN request_map \cup {request_id} |->
                    IF t = request_id THEN <<start_index, end_index>>
                    ELSE request_map[t]]
        /\ vectors' = vectors \o vecs

\* Variant: the end of the range is the length of the batch.
CommitEndIsBatchLength(request_id, vecs) ==
    LET start_index == Len(vectors)
        end_index == Len(vecs)
        new_image_names ==
            [n \in 1..Len(vecs) |-> ImageName(start_index + n)]
    IN  /\ index' = index \o [n \in 1..Len(vecs) |-> Float32(vecs[n])]
        /\ image_names' = image_names \o new_image_names
        /\ request_map' =
               [t \in DOMAIN request_map \cup {request_id} |->
                    IF t = request_id THEN <<start_index, end_index>>
                    ELSE request_map[t]]
        /\ vectors' = vectors \o vecs

\* The mutation part of VectorDB.add_vectors, after validation.
Commit(request_id, vecs) ==
    LET start_index == Len(vectors)
        end_index == start_index + Len(vecs)
        new_image_names ==
            [n \in 1..Len(vecs) |-> ImageName(start_index + n)]
    IN  /\ index' = index \o [n \in 1..Len(vecs) |-> Float32(vecs[n])]
        /\ image_names' = image_names \o new_image_names
        /\ request_map' =
               [t \in DOMAIN request_map \cup {request_id} |->
                    IF t = request_id THEN <<start_index, end_index>>
                    ELSE request_map[t]]
        /\ vectors' = vectors \o vecs

\* VectorDB.add_vectors called directly.
AddVectors(request_id, vecs) ==
    /\ Len(vectors) + Len(vecs) <= MaxCorpus
    /\ call' = [op |-> "add_vectors", request_id |-> request_id,
                vectors |-> vecs]
    /\ result' = [status |-> AddVectorsError(vecs)]
    /\ IF AddVectorsError(vecs) = "ok"
       THEN Commit(request_id, vecs)
       ELSE UNCHANGED store
    /\ UNCHANGED pending

\* Variant: the start index is taken to be the new length of the corpus.
ReportedNamesFromTotal(total, n) ==
    [m \in 1..n |-> ImageName(total + m)]

\* The names add_images reports, computed after add_vectors from the new
\* length of vector_db.vectors and the number of vectors of the request.
ReportedNames(total, n) ==
    LET start_index == total - n
        end_index == total
    IN  [m \in 1..(end_index - start_index) |-> ImageName(start_index + m)]

\* The end of add_images, from the test for an empty list of vectors to
\* the response; done is what the loops over the images ended with.
Respond(request_id, items, done) ==
    LET vecs == done.vectors
    IN  /\ call' = [op |-> "add_images",
                    images |-> [n \in 1..Len(items) |->
                                   [src |-> items[n].src,
                                    fault |-> items[n].fault]]]
        /\ IF done.status # 200
           THEN /\ result' = [status |-> done.status]
                /\ UNCHANGED store
           ELSE IF vecs = <<>>
           THEN /\ result' = [status |-> 400]
                /\ UNCHANGED store
           ELSE IF AddVectorsError(vecs) # "ok"
           THEN /\ result' = [status |-> 500]
                /\ UNCHANGED store
           ELSE /\ Commit(request_id, vecs)
                /\ result' =
                       [status |-> 200, request_id |-> request_id,
                        added_images |-> Len(vecs),
                        system_image_names |->
                            ReportedNames(Len(vectors) + Len(vecs),
                                          Len(vecs))]

\* POST /images served without another request in between.  The body
\* holds uploaded files, or the JSON lists base64_images and image_urls;
\* they are processed in that order.  request_id is the value uuid4
\* returns for this request.
AddImages(request_id, files, base64_images, image_urls) ==
    LET items == files \o base64_images \o image_urls
    IN  /\ request_id \notin DOMAIN request_map
        /\ Len(vectors) + Len(items) <= MaxCorpus
        /\ Respond(request_id, items, ProcessImages(items, <<>>))
        /\ UNCHANGED pending

\* Variant: the request map is not cleared.
ResetKeepsRequests ==
    /\ index' = <<>>
    /\ vectors' = <<>>
    /\ request_map' = request_map
    /\ image_names' = <<>>
    /\ call' = [op |-> "reset"]
    /\ result' = [status |-> "ok"]
    /\ UNCHANGED pending

\* Variant: the name list is not cleared.
ResetKeepsNames ==
    /\ index' = <<>>
    /\ vectors' = <<>>
    /\ request_map' = <<>>
    /\ image_names' = image_names
    /\ call' = [op |-> "reset"]
    /\ result' = [status |-> "ok"]
    /\ UNCHANGED pending

\* VectorDB.reset
Reset ==
    /\ index' = <<>>
    /\ vectors' = <<>>
    /\ request_map' = <<>>
    /\ image_names' = <<>>
    /\ call' = [op |-> "reset"]
    /\ result' = [status |-> "ok"]
    /\ UNCHANGED pending

\* The answer of find_duplicates for a registered request_id.
FindResponse(request_id, all_duplicates) ==
    IF all_duplicates = {}
    THEN [status |-> 200, message |-> "No duplicates found",
          all_duplicates |-> all_duplicates]
    ELSE [status |-> 200, request_id |-> request_id,
          duplicates |->
              {get_image_name(image_names, idx) : idx \in all_duplicates},
          all_duplicates |-> all_duplicates]

\* Variant: a request_id that is not registered is answered as a request
\* without vectors.
FindDuplicatesUnchecked(request_id, threshold, k) ==
    /\ call' = [op |-> "find_duplicates", request_id |-> request_id,
                threshold |-> threshold, k |-> k]
    /\ IF request_id \notin DOMAIN request_map
       THEN result' = FindResponse(request_id, {})
       ELSE LET start_index == request_map[request_id][1]
                duplicates_indices ==
                    search_duplicates(index, vectors, request_map,
                                      request_id, k)
            IN  result' =
                    FindResponse(request_id,
                        AllDuplicates(duplicates_indices, start_index,
                                      threshold))
    /\ UNCHANGED <<store, pending>>

\* Variant: a request is removed from the request map once it has been
\* queried.
FindDuplicatesConsuming(request_id, threshold, k) ==
    /\ call' = [op |-> "find_duplicates", request_id |-> request_id,
                threshold |-> threshold, k |-> k]
    /\ IF request_id \notin DOMAIN request_map
       THEN /\ result' = [status |-> 404, detail |-> "Request ID not found"]
            /\ request_map' = request_map
       ELSE LET start_index == request_map[request_id][1]
                duplicates_indices ==
                    search_duplicates(index, vectors, request_map,
                                      request_id, k)
            IN  /\ result' =
                       FindResponse(request_id,
                           AllDuplicates(duplicates_indices, start_index,
                                         threshold))
                /\ request_map' =
                       [t \in DOMAIN request_map \ {request_id} |->
                            request_map[t]]
    /\ UNCHANGED <<index, vectors, image_names, pending>>

\* GET /duplicates/{request_id}
FindDuplicates(request_id, threshold, k) ==
    /\ call' = [op |-> "find_duplicates", request_id |-> request_id,
                threshold |-> threshold, k |-> k]
    /\ IF request_id \notin DOMAIN request_map
       THEN result' = [status |-> 404, detail |-> "Request ID not found"]
       ELSE LET start_index == request_map[request_id][1]
                duplicates_indices ==
                    search_duplicates(index, vectors, request_map,
                                      request_id, k)
            IN  result' =
                    FindResponse(request_id,
                        AllDuplicates(duplicates_indices, start_index,
                                      threshold))
    /\ UNCHANGED <<store, pending>>

Room == MaxCorpus - Len(vectors)

Next ==
    \/ \E t \in DirectTokens, n \in 0..Min(MaxBatch, Room) :
           \E vecs \in [1..n -> AnyVectors] : AddVectors(t, vecs)
    \/ \E n \in 0..Min(MaxImages, Room) :
           \E id \in Uuids, files \in [1..n -> FileItems] :
               AddImages(id, files, <<>>, <<>>)
    \/ \E nb \in 0..Min(MaxImages, Room) :
           \E nu \in 0..(Min(MaxImages, Room) - nb) :
               \E id \in Uuids, b \in [1..nb -> Base64Items],
                      u \in [1..nu -> UrlItems] :
                   AddImages(id, <<>>, b, u)
    \/ Reset
    \/ \E t \in AllTokens, th \in Thresholds, k \in 1..MaxK :
           FindDuplicates(t, th, k)

Spec == Init /\ [][Next]_vars

\* ------------------------------------------------- interleaved requests
\* The handlers are coroutines of one event loop: a handler runs alone
\* from one await to the next.  add_images awaits request.json() for a
\* JSON body and file.read() for every uploaded file; add_vectors,
\* find_duplicates and reset contain no await.  pending holds the
\* add_images requests suspended at an await: the images of the body and
\* the number of files already read and embedded.

\* The handler reaches the await on the read of file n: the files before
\* it were accepted and file n has a supported content type.
ReachesRead(items, n) ==
    /\ n <= Len(items)
    /\ \A m \in 1..(n - 1) : items[m].fault = "none"
    /\ items[n].fault # "type"

\* The images of the requests that are suspended.
PendingImages(pend) ==
    LET RECURSIVE Count(_)
        Count(S) == IF S = {} THEN 0
                    ELSE LET id == CHOOSE x \in S : TRUE
                         IN  Len(pend[id].items) + Count(S \ {id})
    IN  Count(DOMAIN pend)

Suspend(request_id, at, items, pos) ==
    /\ pending' = [id \in DOMAIN pending \cup {request_id} |->
                       IF id = request_id
                       THEN [at |-> at, items |-> items, pos |-> pos]
                       ELSE pending[id]]
    /\ UNCHANGED <<store, call, result>>

Finish(request_id, items) ==
    /\ pending' = [id \in DOMAIN pending \ {request_id} |-> pending[id]]
    /\ Respond(request_id, items, ProcessImages(items, <<>>))

\* Variant: the range the request will occupy is registered when the
\* request is received.
BeginAddImagesRegistering(request_id, files, base64_images, image_urls) ==
    LET items == files \o base64_images \o image_urls
    IN  /\ request_id \notin DOMAIN request_map \cup DOMAIN pending
        /\ Len(vectors) + PendingImages(pending) + Len(items) <= MaxCorpus
        /\ IF files = <<>> \/ ReachesRead(files, 1)
           THEN /\ pending' =
                       [id \in DOMAIN pending \cup {request_id} |->
                           IF id = request_id
                           THEN [at |-> IF files = <<>> THEN "json"
                                        ELSE "file",
                                 items |-> items, pos |-> 0]
                           ELSE pending[id]]
                /\ request_map' =
                       [t \in DOMAIN request_map \cup {request_id} |->
                           IF t = request_id
                           THEN <<Len(vectors), Len(vectors) + Len(items)>>
                           ELSE request_map[t]]
                /\ UNCHANGED <<index, vectors, image_names, call, result>>
           ELSE Finish(request_id, items)

\* POST /images from its start to its first await, or to its response
\* when the first file is refused before any await.
BeginAddImages(request_id, files, base64_images, image_urls) ==
    LET items == files \o base64_images \o image_urls
    IN  /\ request_id \notin DOMAIN request_map \cup DOMAIN pending
        /\ Len(vectors) + PendingImages(pending) + Len(items) <= MaxCorpus
        /\ IF files = <<>> THEN Suspend(request_id, "json", items, 0)
           ELSE IF ReachesRead(files, 1)
           THEN Suspend(request_id, "file", items, 0)
           ELSE Finish(request_id, items)

\* POST /images from one await to the next, or to its response.
ResumeAddImages(request_id) ==
    LET req == pending[request_id]
    IN  IF req.at = "file" /\ ReachesRead(req.items, req.pos + 2)
        THEN Suspend(request_id, "file", req.items, req.pos + 1)
        ELSE Finish(request_id, req.items)

RoomAsync == MaxCorpus - Len(vectors) - PendingImages(pending)

NextAsync ==
    \/ \E n \in 1..Min(MaxImages, RoomAsync) :
           \E id \in Uuids, files \in [1..n -> FileItems] :
               BeginAddImages(id, files, <<>>, <<>>)
    \/ \E nb \in 0..Min(MaxImages, RoomAsync) :
           \E nu \in 0..(Min(MaxImages, RoomAsync) - nb) :
               \E id \in Uuids, b \in [1..nb -> Base64Items],
                      u \in [1..nu -> UrlItems] :
                   BeginAddImages(id, <<>>, b, u)
    \/ \E id \in DOMAIN pending : ResumeAddImages(id)
    \/ Reset
    \/ \E t \in Uuids, k \in 1..MaxK : FindDuplicates(t, 0, k)

SpecAsync == Init /\ [][NextAsync]_vars

\* ---------------------------------------------------------------- claims
Registered(request_id) == request_id \in DOMAIN request_map

HasWrongLength(vecs) == \E i \in 1..Len(vecs) : Len(vecs[i]) # Dim

\* C1: add_vectors with a batch in which some vector has a length other
\* than the store dimension raises the dimension error (ValueError) and
\* leaves the index, the vector list, the name list and the request map
\* as they were; no vector of the batch is committed.
C1_AddRejectsWrongDimension ==
    [][(call'.op = "add_vectors" /\ HasWrongLength(call'.vectors))
           => (result'.status = "ValueError" /\ store' = store)]_vars

\* A rejected batch whose first vector has the right length and whose
\* second has not, on a store that is not empty.
C1_Witness ==
    /\ call.op = "add_vectors"
    /\ Len(call.vectors) = 2
    /\ Len(call.vectors[1]) = Dim
    /\ Len(call.vectors[2]) # Dim
    /\ result.status = "ValueError"
    /\ Len(vectors) > 0

\* C2: as long as there is no reset, every step keeps each stored vector
\* and its name at its index, a successful add appends its batch after
\* them in order, and the vector at index i is named "image_" and i+1.
C2_IndexStability ==
    [][call'.op # "reset" =>
        /\ Len(vectors') >= Len(vectors)
        /\ Len(index') = Len(vectors')
        /\ \A i \in 1..Len(vectors) :
               /\ vectors'[i] = vectors[i]
               /\ index'[i] = index[i]
               /\ image_names'[i] = image_names[i]
        /\ (call'.op = "add_vectors" /\ result'.status = "ok"
               => vectors' = vectors \o call'.vectors)
        /\ (call'.op = "add_images" /\ result'.status = 200
               => Len(vectors') = Len(vectors) + Len(call'.images))
        /\ \A i \in 0..(Len(vectors') - 1) :
               get_image_name(image_names', i) = ImageName(i + 1)]_vars

\* Two requests are stored and a duplicate query has just run.
C2_Witness ==
    /\ call.op = "find_duplicates"
    /\ Cardinality(DOMAIN request_map) >= 2
    /\ Len(vectors) >= 3
    /\ result.status = 200

\* C3: a successful POST /images with n images answers added_images = n
\* and the n names image_(start+1) .. image_(end) of the range recorded
\* under the request_id it returns; 3 images into an empty store are named
\* image_1, image_2, image_3 and make the store hold 3 vectors.
C3_IngestNames ==
    (call.op = "add_images" /\ result.status = 200) =>
        /\ Registered(result.request_id)
        /\ LET n == Len(call.images)
               start == request_map[result.request_id][1]
               end == request_map[result.request_id][2]
           IN  /\ n > 0
               /\ result.added_images = n
               /\ Len(result.system_image_names) = n
               /\ end - start = n
               /\ end = Len(vectors)
               /\ \A m \in 1..n :
                      result.system_image_names[m] = ImageName(start + m)
               /\ (start = 0 /\ n = 3) =>
                      /\ result.system_image_names
                             = <<"image_1", "image_2", "image_3">>
                      /\ Len(vectors) = 3
                      /\ Len(index) = 3

\* A successful ingest into a store that already held vectors.
C3_Witness ==
    /\ call.op = "add_images"
    /\ result.status = 200
    /\ request_map[result.request_id][1] > 0
    /\ Len(call.images) >= 2

\* The request has a vector that is also stored at another index.
HasTwin(request_id) ==
    \E i \in request_map[request_id][1]..(request_map[request_id][2] - 1) :
        \E j \in 0..(Len(vectors) - 1) :
            j # i /\ vectors[j + 1] = vectors[i + 1]

\* C4: when a vector of the request is stored a second time at another
\* index, find_duplicates with threshold 0 and k >= 2 answers a list of
\* duplicates that is not empty.
C4_InclusiveThreshold ==
    (/\ call.op = "find_duplicates"
     /\ Registered(call.request_id)
     /\ call.threshold = 0
     /\ call.k >= 2
     /\ HasTwin(call.request_id))
        => (/\ result.status = 200
            /\ "duplicates" \in DOMAIN result
            /\ result.duplicates # {})

\* The twin is found in a corpus that also holds a different vector.
C4_Witness ==
    /\ call.op = "find_duplicates"
    /\ Registered(call.request_id)
    /\ call.threshold = 0
    /\ call.k >= 2
    /\ HasTwin(call.request_id)
    /\ \E i, j \in 1..Len(vectors) : vectors[i] # vectors[j]
    /\ "duplicates" \in DOMAIN result

\* Every vector of the request is farther than threshold from every
\* vector stored at another index.
AllFar(request_id, threshold) ==
    \A i \in request_map[request_id][1]..(request_map[request_id][2] - 1) :
        \A j \in 0..(Len(index) - 1) :
            j # i => L2Sqr(index[i + 1], index[j + 1]) > threshold

\* C5: when every vector of the request is at a squared distance above
\* threshold from every vector stored at another index, find_duplicates
\* answers "No duplicates found", for every k >= 1, also one above the
\* corpus size.
C5_NoFalsePositives ==
    (/\ call.op = "find_duplicates"
     /\ Registered(call.request_id)
     /\ call.k >= 1
     /\ AllFar(call.request_id, call.threshold))
        => (/\ result.status = 200
            /\ "message" \in DOMAIN result
            /\ result.message = "No duplicates found")

\* C6: the search for the request vector stored at index start + p never
\* contributes start + p to the result set, so a request of one vector
\* never has that vector's own name among its duplicates.
C6_SelfExclusion ==
    (call.op = "find_duplicates" /\ Registered(call.request_id)) =>
        LET start == request_map[call.request_id][1]
            end == request_map[call.request_id][2]
            found == search_duplicates(index, vectors, request_map,
                                       call.request_id, call.k)
        IN  /\ \A p \in 0..(end - start - 1) :
                   (start + p) \notin
                       Contribution(found[VectorKey(p)],
                                    CurrentIndex(start, VectorKey(p)),
                                    call.threshold)
            /\ (end - start = 1) =>
                   /\ start \notin result.all_duplicates
                   /\ ("duplicates" \in DOMAIN result
                          => ImageName(start + 1) \notin result.duplicates)

\* A request of one vector, not the first of the corpus, whose twin is
\* reported.
C6_Witness ==
    /\ call.op = "find_duplicates"
    /\ Registered(call.request_id)
    /\ request_map[call.request_id][1] > 0
    /\ request_map[call.request_id][2] = request_map[call.request_id][1] + 1
    /\ HasTwin(call.request_id)
    /\ "duplicates" \in DOMAIN result

\* C7: find_duplicates with a request_id that is not in the request map
\* answers 404 without searching and leaves the index, the vector list,
\* the name list and the request map as they were.
C7_UnknownToken ==
    [][(call'.op = "find_duplicates" /\ ~Registered(call'.request_id))
           => (/\ result'.status = 404
               /\ DOMAIN result' = {"status", "detail"}
               /\ store' = store)]_vars

\* A 404 on a store that holds other requests.
C7_Witness ==
    /\ call.op = "find_duplicates"
    /\ ~Registered(call.request_id)
    /\ result.status = 404
    /\ Len(vectors) > 0

SucceededAdd(c, r) ==
    \/ c.op = "add_vectors" /\ r.status = "ok"
    \/ c.op = "add_images" /\ r.status = 200

AddedUnder(c, r) ==
    IF c.op = "add_vectors" THEN c.request_id ELSE r.request_id

\* C8: reset leaves the index, the vector list, the name list and the
\* request map empty; a duplicate query right after it answers 404 for
\* every token; and a successful add of n vectors right after it takes
\* the indices 0..n-1 and the names image_1..image_n.
C8_Reset ==
    [][/\ call'.op = "reset" =>
              /\ index' = <<>>
              /\ vectors' = <<>>
              /\ image_names' = <<>>
              /\ DOMAIN request_map' = {}
       /\ (call.op = "reset" /\ call'.op = "find_duplicates")
              => result'.status = 404
       /\ (call.op = "reset" /\ SucceededAdd(call', result')) =>
              /\ DOMAIN request_map' = {AddedUnder(call', result')}
              /\ request_map'[AddedUnder(call', result')]
                     = <<0, Len(vectors')>>
              /\ Len(index') = Len(vectors')
              /\ Len(vectors') > 0
              /\ image_names'
                     = [n \in 1..Len(vectors') |-> ImageName(n)]]_vars

\* The state a reset leaves.
C8_Witness ==
    /\ call.op = "reset"
    /\ vectors = <<>>
    /\ DOMAIN request_map = {}

\* C9: add_vectors under a request_id that is already in the request map
\* fails with DuplicateToken, and the record of that request_id keeps the
\* range it had.
C9_DuplicateTokenRejected ==
    [][(call'.op = "add_vectors" /\ Registered(call'.request_id)) =>
           /\ request_map'[call'.request_id] = request_map[call'.request_id]
           /\ (AddVectorsError(call'.vectors) = "ok"
                  => result'.status = "DuplicateToken")]_vars

HasFault(images) == \E n \in 1..Len(images) : images[n].fault # "none"

\* C10: a POST /images in which some image is rejected fails, and the
\* index, the vector list, the name list and the request map are as
\* before the request.
C10_NoPartialIngestion ==
    [][(call'.op = "add_images" /\ HasFault(call'.images))
           => (result'.status \in {400, 500} /\ store' = store)]_vars

\* A failed request whose first image was processed successfully.
C10_Witness ==
    /\ call.op = "add_images"
    /\ Len(call.images) >= 2
    /\ call.images[1].fault = "none"
    /\ HasFault(call.images)
    /\ result.status \in {400, 500}
    /\ Len(vectors) > 0

\* The search results of the duplicate query that has just run, and what
\* the query row at position p of the request contributes to the result.
Found == search_duplicates(index, vectors, request_map,
                           call.request_id, call.k)

RowContribution(p) ==
    Contribution(Found[VectorKey(p)],
                 CurrentIndex(request_map[call.request_id][1], VectorKey(p)),
                 call.threshold)

RowLabels(p) ==
    {Found[VectorKey(p)].indices[n] : n \in 1..call.k}

RequestRows ==
    0..(request_map[call.request_id][2] - request_map[call.request_id][1] - 1)

\* C11 as stated: the search for one request vector contributes at most
\* k-1 distinct indices to the result set.
C11_CapKMinusOne ==
    (call.op = "find_duplicates" /\ Registered(call.request_id)) =>
        \A p \in RequestRows : Cardinality(RowContribution(p)) <= call.k - 1

\* C11 as amended: the search for one request vector contributes at most
\* k distinct indices, and at most k-1 when the vector's own index is one
\* of the k neighbours returned for it.
C11_CapWhenSelfReturned ==
    (call.op = "find_duplicates" /\ Registered(call.request_id)) =>
        \A p \in RequestRows :
            /\ Cardinality(RowContribution(p)) <= call.k
            /\ (request_map[call.request_id][1] + p) \in RowLabels(p)
                   => Cardinality(RowContribution(p)) <= call.k - 1

\* Three equal vectors are stored, k = 2, and the search for the first
\* of them returns itself and contributes the one other neighbour.
C11_Witness ==
    /\ call.op = "find_duplicates"
    /\ Registered(call.request_id)
    /\ call.k = 2
    /\ call.threshold = 0
    /\ Len(vectors) >= 3
    /\ \A i, j \in 1..Len(vectors) : vectors[i] = vectors[j]
    /\ request_map[call.request_id][1] = 0
    /\ 0 \in RowLabels(0)
    /\ Cardinality(RowContribution(0)) = 1

\* C12: when the corpus holds fewer than k vectors, the indices a
\* duplicate query collects are indices of stored vectors only, for every
\* threshold, and the duplicates it answers never hold a missing name.
C12_NoPlaceholder ==
    (/\ call.op = "find_duplicates"
     /\ Registered(call.request_id)
     /\ Len(index) < call.k)
        => (/\ result.all_duplicates \subseteq 0..(Len(index) - 1)
            /\ ("duplicates" \in DOMAIN result
                   => None \notin result.duplicates))

\* C15: find_duplicates for a registered request_id with a threshold below
\* 0 answers "No duplicates found": it neither fails nor reports a name.
C15_NegativeThreshold ==
    (/\ call.op = "find_duplicates"
     /\ Registered(call.request_id)
     /\ call.threshold < 0)
        => (/\ result.status = 200
            /\ DOMAIN result = {"status", "message", "all_duplicates"}
            /\ result.message = "No duplicates found"
            /\ result.all_duplicates = {})

\* A negative threshold on a request that has a twin within the k nearest.
C15_Witness ==
    /\ call.op = "find_duplicates"
    /\ Registered(call.request_id)
    /\ call.threshold < 0
    /\ call.k >= 2
    /\ HasTwin(call.request_id)
    /\ result.status = 200

\* The ranges of rmap are not empty and every index 0..n-1 lies in the
\* range of exactly one request.
RangesPartition(rmap, n) ==
    /\ \A t \in DOMAIN rmap :
           0 <= rmap[t][1] /\ rmap[t][1] < rmap[t][2] /\ rmap[t][2] <= n
    /\ \A i \in 0..(n - 1) :
           Cardinality({t \in DOMAIN rmap :
                           rmap[t][1] <= i /\ i < rmap[t][2]}) = 1

\* C16: the ranges of the request map are not empty, pairwise disjoint and
\* cover exactly the indices of the corpus: this holds of the initial
\* state, and every add under a request_id that is not registered, every
\* reset and every duplicate query keeps it.
C16_RangesPartition ==
    [][/\ call.op = "init" => RangesPartition(request_map, Len(vectors))
       /\ (/\ RangesPartition(request_map, Len(vectors))
           /\ ~(call'.op = "add_vectors" /\ Registered(call'.request_id)))
              => (/\ RangesPartition(request_map', Len(vectors'))
                  /\ Len(index') = Len(vectors'))]_vars

\* Two ingests under fresh tokens have completed and their ranges split
\* the corpus.
C16_Witness ==
    /\ call.op = "add_images"
    /\ result.status = 200
    /\ Cardinality(DOMAIN request_map) >= 2
    /\ DOMAIN request_map \subseteq Uuids
    /\ RangesPartition(request_map, Len(vectors))

\* C17: find_duplicates leaves the index, the vector list, the name list
\* and the request map as they were, and a call that repeats the call
\* before it gives the same answer.
C17_FindIsReadOnly ==
    [][call'.op = "find_duplicates" =>
           /\ store' = store
           /\ (call.op = "find_duplicates" /\ call' = call)
                  => result' = result]_vars

\* A duplicate query that reported names.
C17_Witness ==
    /\ call.op = "find_duplicates"
    /\ "duplicates" \in DOMAIN result
    /\ result.duplicates # {}
    /\ None \notin result.duplicates
    /\ Cardinality(DOMAIN request_map) >= 2

\* C13: in every state another request can observe, also while add_images
\* requests are suspended, each registered request_id has a range with
\* 0 <= start <= end <= N, N being the number of vectors in the vector
\* list, in the index and in the name list; a request that has not
\* appended its vectors is not registered.
C13_RangesWithinCorpus ==
    /\ \A t \in DOMAIN request_map :
           /\ 0 <= request_map[t][1]
           /\ request_map[t][1] <= request_map[t][2]
           /\ request_map[t][2] <= Len(vectors)
           /\ request_map[t][2] <= Len(index)
           /\ request_map[t][2] <= Len(image_names)
    /\ DOMAIN pending \cap DOMAIN request_map = {}

\* A duplicate query has been answered for a registered request while an
\* add_images that has already embedded a file is suspended.
C13_Witness ==
    /\ call.op = "find_duplicates"
    /\ result.status = 200
    /\ \E id \in DOMAIN pending :
           pending[id].at = "file" /\ pending[id].pos >= 1

====
